---- MODULE Spec2Model ----
(***************************************************************************)
(* weather-cli: the provider registry (provider_registry.rs), the generic  *)
(* REST fetch-and-decode routine (utils.rs), the weather providers         *)
(* (provider/*.rs), the calendar date (date.rs) and the commands of the    *)
(* command line client (main.rs), as state machines.                       *)
(***************************************************************************)
EXTENDS Integers, Sequences, FiniteSets, TLC

VARIABLES
    providers,  \* ProviderRegistry.providers: the BTreeMap, as its in-order entry sequence
    panicked,   \* the process was terminated by panic!
    regLog,     \* history: the names passed to add_provider, in call order
    lastCall,   \* history: the arguments of the latest add_provider call
    section,    \* the config Section handed to ProviderFactory::create
    created,    \* result of the latest ProviderFactory::create call
    gw,         \* the get_weather future: position, arguments, locals, result
    rg,         \* the restful_get future: position, arguments, locals, result
    gets,       \* history: URL of every HTTP GET issued during the current get_weather call
    rgLog,      \* history: URL and result of every restful_get call that returned during it
    disk,       \* the config file: the TOML table it holds (no file: the empty table)
    pc,         \* main: position of the process ("start": no process is running)
    cmd,        \* main: the parsed command line (Cli.command)
    cfg,        \* main: config, the TOML table read_config returned, as the command leaves it
    new_config, \* configure_provider: the table built from the parameters
    outcome,    \* main: what the command returned
    calls,      \* history: the read_weather calls of the running process
    runs,       \* history: number of processes started so far
    lastClear,  \* history: the providers of the previous process, when it was a clear that succeeded
    loaded,     \* history: the table read_config returned to the running process
    writes,     \* history: number of write_config calls of the running process
    creates     \* history: the factory.create calls of the running process

regVars == <<providers, panicked, regLog, lastCall>>
provVars == <<section, created, gw, rg, gets, rgLog>>
cliVars == <<disk, pc, cmd, cfg, new_config, outcome, calls, runs, lastClear,
             loaded, writes, creates>>
vars == <<providers, panicked, regLog, lastCall, section, created, gw, rg, gets, rgLog,
          disk, pc, cmd, cfg, new_config, outcome, calls, runs, lastClear,
          loaded, writes, creates>>

(***************************************************************************)
(* Bounds of the model                                                     *)
(***************************************************************************)
\* add_provider calls per run
MaxRegs == 5

(***************************************************************************)
(* Strings and their order                                                 *)
(***************************************************************************)
\* Provider names registered in the runs.
Names == {"accuweather", "openweather", "weatherapi", "weather", "stub"}

\* UTF-8 bytes of the names (all ASCII).
Utf8(s) ==
    CASE s = "accuweather" -> <<97, 99, 99, 117, 119, 101, 97, 116, 104, 101, 114>>
      [] s = "openweather" -> <<111, 112, 101, 110, 119, 101, 97, 116, 104, 101, 114>>
      [] s = "weatherapi" -> <<119, 101, 97, 116, 104, 101, 114, 97, 112, 105>>
      [] s = "weather" -> <<119, 101, 97, 116, 104, 101, 114>>
      [] s = "stub" -> <<115, 116, 117, 98>>

\* Ord for byte strings: lexicographic, a proper prefix sorts first.
RECURSIVE LexLess(_, _)
LexLess(a, b) ==
    IF b = <<>> THEN FALSE
    ELSE IF a = <<>> THEN TRUE
    ELSE IF Head(a) # Head(b) THEN Head(a) < Head(b)
    ELSE LexLess(Tail(a), Tail(b))

\* Ord for str, the key order of BTreeMap<CowString, _>.
StrLess(a, b) == LexLess(Utf8(a), Utf8(b))

(***************************************************************************)
(* ProviderRegistry                                                        *)
(***************************************************************************)
\* The provider types a factory can wrap (ProviderFactoryT<T>).
ProviderTypes == {"OpenWeather", "WeatherApi", "AccuWeather"}

\* ProviderRegistry::new: an empty map.
RegistryNew == <<>>

\* Deref to the map: keys in iteration order.
Keys(map) == [i \in 1..Len(map) |-> map[i].name]

\* BTreeMap::contains_key
ContainsKey(map, name) == \E i \in 1..Len(map) : map[i].name = name

\* BTreeMap::get: the factory stored under name ("None" when absent).
Get(map, name) ==
    IF ContainsKey(map, name)
    THEN (CHOOSE e \in {map[i] : i \in 1..Len(map)} : e.name = name).factory
    ELSE "None"

\* A map that keeps call order instead of key order.
InsertAtEnd(map, name, factory) == Append(map, [name |-> name, factory |-> factory])

\* VacantEntry::insert: the entry goes where the key order puts it.
VacantInsert(map, name, factory) ==
    LET before == Cardinality({i \in 1..Len(map) : StrLess(map[i].name, name)})
    IN  SubSeq(map, 1, before)
          \o <<[name |-> name, factory |-> factory]>>
          \o SubSeq(map, before + 1, Len(map))

\* An add_provider that overwrites on an occupied entry instead of panicking.
AddProviderOverwrite(name, T) ==
    /\ providers' = IF ContainsKey(providers, name)
                    THEN [i \in 1..Len(providers) |->
                            IF providers[i].name = name
                            THEN [name |-> name, factory |-> T]
                            ELSE providers[i]]
                    ELSE VacantInsert(providers, name, T)
    /\ panicked' = FALSE

\* ProviderRegistry::add_provider::<T>(name)
AddProviderBody(name, T) ==
    IF ContainsKey(providers, name)
    THEN \* BTreeEntry::Occupied: panic!("Provider {} already registered")
         /\ panicked' = TRUE
         /\ providers' = providers
    ELSE \* BTreeEntry::Vacant
         /\ providers' = VacantInsert(providers, name, T)
         /\ panicked' = FALSE

AddProvider ==
    /\ ~panicked
    /\ Len(regLog) < MaxRegs
    /\ \E name \in Names, T \in ProviderTypes :
          /\ AddProviderBody(name, T)
          /\ regLog' = Append(regLog, name)
          /\ lastCall' = [name |-> name, factory |-> T]
    /\ UNCHANGED <<provVars, cliVars>>

(***************************************************************************)
(* Response texts and their serde_json decoders                            *)
(***************************************************************************)
\* A response text is a JSON document or a text that is not JSON ("bad").
\* Every value has the same record shape; the fields a kind does not use hold
\* their defaults.
NoFields == [k \in {} |-> 0]
JBad == [t |-> "bad", n |-> 0, s |-> "", o |-> NoFields, a |-> <<>>]
JNum(n) == [t |-> "num", n |-> n, s |-> "", o |-> NoFields, a |-> <<>>]
JStr(s) == [t |-> "str", n |-> 0, s |-> s, o |-> NoFields, a |-> <<>>]
JObj(o) == [t |-> "obj", n |-> 0, s |-> "", o |-> o, a |-> <<>>]
JArr(a) == [t |-> "arr", n |-> 0, s |-> "", o |-> NoFields, a |-> a]

\* serde: a struct field of the given type is present in object j.
HasField(j, f, t) == j.t = "obj" /\ f \in DOMAIN j.o /\ j.o[f].t = t
HasNum(j, f) == HasField(j, f, "num")
HasStr(j, f) == HasField(j, f, "str")
HasObj(j, f) == HasField(j, f, "obj")
HasArr(j, f) == HasField(j, f, "arr")
\* serde: Vec<T> is decoded from an array, item by item.
IsArr(j) == j.t = "arr"

\* Result<T, serde_json::Error> of a from_str call.
DecodeOk(v) == [ok |-> TRUE, val |-> v]
DecodeErr == [ok |-> FALSE, val |-> NoFields]

\* openweather.rs: ApiError { cod: i32, message: String }
IsOpenWeatherApiError(j) == HasNum(j, "cod") /\ HasStr(j, "message")
OpenWeatherApiErrorFromStr(j) ==
    IF IsOpenWeatherApiError(j)
    THEN DecodeOk([cod |-> j.o.cod.n, message |-> j.o.message.s])
    ELSE DecodeErr

\* openweather.rs: Coords { lat: f64, lon: f64 } and CoordsVec(Vec<Coords>)
IsCoords(j) == HasNum(j, "lat") /\ HasNum(j, "lon")
CoordsVecFromStr(j) ==
    IF (IsArr(j) /\ \A i \in 1..Len(j.a) : IsCoords(j.a[i]))
    THEN DecodeOk([i \in 1..Len(j.a) |-> [lat |-> j.a[i].o.lat.n, lon |-> j.a[i].o.lon.n]])
    ELSE DecodeErr

\* openweather.rs: WeatherData { main, wind, weather: Vec<WeatherSection> }
IsWeatherSection(j) == HasNum(j, "id") /\ j.o.id.n >= 0
IsOpenWeatherData(j) ==
    /\ HasObj(j, "main") /\ HasNum(j.o.main, "temp") /\ HasNum(j.o.main, "humidity")
    /\ HasObj(j, "wind") /\ HasNum(j.o.wind, "speed")
    /\ HasArr(j, "weather")
    /\ \A i \in 1..Len(j.o.weather.a) : IsWeatherSection(j.o.weather.a[i])
OpenWeatherDataFromStr(j) ==
    IF IsOpenWeatherData(j)
    THEN DecodeOk([temp |-> j.o.main.o.temp.n,
                   humidity |-> j.o.main.o.humidity.n,
                   speed |-> j.o.wind.o.speed.n,
                   weather |-> [i \in 1..Len(j.o.weather.a) |-> j.o.weather.a[i].o.id.n]])
    ELSE DecodeErr

\* weatherapi.rs: ApiError { error: ApiErrorInner { code: i32, message: String } }
IsWeatherApiApiError(j) ==
    HasObj(j, "error") /\ HasNum(j.o.error, "code") /\ HasStr(j.o.error, "message")
WeatherApiApiErrorFromStr(j) ==
    IF IsWeatherApiApiError(j)
    THEN DecodeOk([code |-> j.o.error.o.code.n, message |-> j.o.error.o.message.s])
    ELSE DecodeErr

\* weatherapi.rs: WeatherData { forecast: Forecast { forecastday: Vec<ForecastDay> } }
IsForecastDay(j) ==
    /\ HasObj(j, "day")
    /\ HasNum(j.o.day, "avghumidity") /\ HasNum(j.o.day, "avgtemp_c")
    /\ HasNum(j.o.day, "maxwind_kph")
    /\ HasObj(j.o.day, "condition")
    /\ HasNum(j.o.day.o.condition, "code") /\ j.o.day.o.condition.o.code.n >= 0
IsWeatherApiData(j) ==
    /\ HasObj(j, "forecast") /\ HasArr(j.o.forecast, "forecastday")
    /\ \A i \in 1..Len(j.o.forecast.o.forecastday.a) :
          IsForecastDay(j.o.forecast.o.forecastday.a[i])
WeatherApiDataFromStr(j) ==
    IF IsWeatherApiData(j)
    THEN LET days == j.o.forecast.o.forecastday.a
         IN  DecodeOk([i \in 1..Len(days) |->
                        [avghumidity |-> days[i].o.day.o.avghumidity.n,
                         avgtemp_c |-> days[i].o.day.o.avgtemp_c.n,
                         maxwind_kph |-> days[i].o.day.o.maxwind_kph.n,
                         code |-> days[i].o.day.o.condition.o.code.n]])
    ELSE DecodeErr

\* accuweather.rs: ApiError { Code: String, Message: String }
IsAccuWeatherApiError(j) == HasStr(j, "Code") /\ HasStr(j, "Message")
AccuWeatherApiErrorFromStr(j) ==
    IF IsAccuWeatherApiError(j)
    THEN DecodeOk([code |-> j.o.Code.s, message |-> j.o.Message.s])
    ELSE DecodeErr

\* accuweather.rs: Location { Key: String } and LocationData(Vec<Location>)
IsLocation(j) == HasStr(j, "Key")
LocationDataFromStr(j) ==
    IF (IsArr(j) /\ \A i \in 1..Len(j.a) : IsLocation(j.a[i]))
    THEN DecodeOk([i \in 1..Len(j.a) |-> j.a[i].o.Key.s])
    ELSE DecodeErr

\* accuweather.rs: PrecipitationType, an optional field of Condition
PrecipitationTypes == {"Rain", "Snow", "Ice", "Mixed"}
IsValueEntry(j) == HasObj(j, "Metric") /\ HasNum(j.o.Metric, "Value")
\* accuweather.rs: Condition and WeatherData(Vec<Condition>)
IsCondition(j) ==
    /\ HasObj(j, "Temperature") /\ IsValueEntry(j.o.Temperature)
    /\ HasNum(j, "RelativeHumidity")
    /\ HasObj(j, "Wind") /\ HasObj(j.o.Wind, "Speed") /\ IsValueEntry(j.o.Wind.o.Speed)
    /\ HasNum(j, "CloudCover")
    /\ j.t = "obj"
    /\ "PrecipitationType" \in DOMAIN j.o =>
          HasStr(j, "PrecipitationType") /\ j.o.PrecipitationType.s \in PrecipitationTypes
AccuWeatherDataFromStr(j) ==
    IF (IsArr(j) /\ \A i \in 1..Len(j.a) : IsCondition(j.a[i]))
    THEN DecodeOk([i \in 1..Len(j.a) |->
                    [temperature |-> j.a[i].o.Temperature.o.Metric.o.Value.n,
                     relative_humidity |-> j.a[i].o.RelativeHumidity.n,
                     wind |-> j.a[i].o.Wind.o.Speed.o.Metric.o.Value.n,
                     cloud_cover |-> j.a[i].o.CloudCover.n,
                     precipitation_type |->
                        IF "PrecipitationType" \in DOMAIN j.a[i].o
                        THEN j.a[i].o.PrecipitationType.s ELSE "None"]])
    ELSE DecodeErr

\* The payload types restful_get is instantiated with, and FromStr of each.
FromStr(type, text) ==
    CASE type = "openweather::ApiError" -> OpenWeatherApiErrorFromStr(text)
      [] type = "openweather::CoordsVec" -> CoordsVecFromStr(text)
      [] type = "openweather::WeatherData" -> OpenWeatherDataFromStr(text)
      [] type = "weatherapi::ApiError" -> WeatherApiApiErrorFromStr(text)
      [] type = "weatherapi::WeatherData" -> WeatherApiDataFromStr(text)
      [] type = "accuweather::ApiError" -> AccuWeatherApiErrorFromStr(text)
      [] type = "accuweather::LocationData" -> LocationDataFromStr(text)
      [] type = "accuweather::WeatherData" -> AccuWeatherDataFromStr(text)

(***************************************************************************)
(* anyhow::Result and the error chain                                      *)
(***************************************************************************)
\* An anyhow::Error is its chain: the contexts, outermost first, then the root
\* cause. code is the HTTP status a message embeds (0: none), val the value a
\* root cause carries (NoFields: none).
Item(kind, msg, code, arg, val) ==
    [kind |-> kind, msg |-> msg, code |-> code, arg |-> arg, val |-> val]
Ctx(msg) == Item("context", msg, 0, "", NoFields)
CtxArg(msg, arg) == Item("context", msg, 0, arg, NoFields)
CtxCode(msg, code) == Item("context", msg, code, "", NoFields)
Msg(msg) == Item("anyhow!", msg, 0, "", NoFields)
MsgArg(msg, arg) == Item("anyhow!", msg, 0, arg, NoFields)
ReqwestError == Item("reqwest::Error", "", 0, "", NoFields)
SerdeError == Item("serde_json::Error", "", 0, "", NoFields)
\* E: StdError turned into anyhow::Error by .into(): the value is the root cause.
ApiErrorItem(e) == Item("ApiError", "", 0, "", e)

Ok(v) == [ok |-> TRUE, val |-> v, err |-> <<>>]
Err(chain) == [ok |-> FALSE, val |-> NoFields, err |-> chain]
\* Context::with_context on a Result
WithContext(res, ctx) == IF res.ok THEN res ELSE Err(<<ctx>> \o res.err)
\* No result yet.
Pending == Err(<<>>)

(***************************************************************************)
(* URLs, dates and the responses of the vendors' servers                   *)
(***************************************************************************)
\* Display of an unsigned integer: its decimal digits as ASCII bytes.
RECURSIVE Decimal(_)
Decimal(n) == IF n < 10 THEN <<48 + n>> ELSE Decimal(n \div 10) \o <<48 + (n % 10)>>

\* "{:0w}" of an unsigned integer: zeros ('0' is byte 48) in front up to the
\* width w, no digit cut when there are more.
RECURSIVE ZeroPad(_, _)
ZeroPad(digits, width) ==
    IF Len(digits) < width THEN ZeroPad(<<48>> \o digits, width) ELSE digits

\* Display for Date: "{:04}-{:02}-{:02}" of year, month and day.
DateDisplay(date) ==
    ZeroPad(Decimal(date.year), 4) \o <<45>> \o ZeroPad(Decimal(date.month), 2)
        \o <<45>> \o ZeroPad(Decimal(date.day), 2)

\* Option<Date>
NoDate == [some |-> FALSE, year |-> 0, month |-> 0, day |-> 0]
SomeDate(y, m, d) == [some |-> TRUE, year |-> y, month |-> m, day |-> d]
Dates == {SomeDate(2023, 2, 5), SomeDate(987, 11, 23), SomeDate(12345, 6, 7)}
\* Date::today: whatever day the clock says.
DateToday == Dates

\* "{:.4}" of a coordinate. Coordinates are integers in units of 10^-5 degree
\* (none of them ends in 5, so rounding is never a tie); the printed value is
\* in units of 10^-4 degree.
Fixed4(x) == IF x % 10 >= 5 THEN (x \div 10) + 1 ELSE x \div 10

\* A formatted URL, as the endpoint and the values substituted into it.
Url(endpoint, apikey, q, lat, lon, key, dt) ==
    [endpoint |-> endpoint, apikey |-> apikey, q |-> q, lat |-> lat, lon |-> lon,
     key |-> key, dt |-> dt]
NoUrl == Url("", "", "", 0, 0, "", <<>>)

\* Free-text locations asked for.
Locations == {"London", "Kyiv"}

\* StatusCode::is_success
IsSuccess(status) == 200 <= status /\ status <= 299
\* Statuses the servers answer with.
Statuses == {200, 299, 300, 401, 404, 500}

Coord(lat, lon) == JObj([lat |-> JNum(lat), lon |-> JNum(lon)])
OwFields(temp, id) ==
    [main |-> JObj([temp |-> JNum(temp), humidity |-> JNum(50)]),
     wind |-> JObj([speed |-> JNum(1)]),
     weather |-> JArr(IF id < 0 THEN <<>> ELSE <<JObj([id |-> JNum(id)])>>)]
OwErrFields == [cod |-> JNum(401), message |-> JStr("Invalid API key")]
WaDay(code) ==
    JObj([day |-> JObj([avghumidity |-> JNum(60), avgtemp_c |-> JNum(15),
                        maxwind_kph |-> JNum(18),
                        condition |-> JObj([code |-> JNum(code)])])])
WaFields(days) == [forecast |-> JObj([forecastday |-> JArr(days)])]
WaErrFields ==
    [error |-> JObj([code |-> JNum(1006), message |-> JStr("No matching location found.")])]
AwMetric(v) == JObj([Metric |-> JObj([Value |-> JNum(v)])])
AwFields(cloud) ==
    [Temperature |-> AwMetric(7), RelativeHumidity |-> JNum(80),
     Wind |-> JObj([Speed |-> AwMetric(36)]), CloudCover |-> JNum(cloud)]

\* Response texts the servers answer with: the vendors' success and failure
\* documents, documents of neither shape, documents of both shapes, and a
\* text that is not JSON.
Bodies ==
    { JBad,
      JArr(<<>>),
      JObj(NoFields),
      \* OpenWeather
      JArr(<<Coord(5150732, -12776)>>),
      JArr(<<Coord(5045012, 3052341), Coord(5150732, -12776)>>),
      JArr(<<JObj([lat |-> JNum(5150732)])>>),
      JObj(OwErrFields),
      JObj([cod |-> JStr("404"), message |-> JStr("city not found")]),
      JObj(OwFields(20, 800)),
      JObj(OwFields(3, -1)),
      JObj(OwFields(20, 800) @@ OwErrFields),
      \* WeatherAPI
      JObj(WaErrFields),
      JObj(WaFields(<<WaDay(1000)>>)),
      JObj(WaFields(<<>>)),
      JObj(WaFields(<<WaDay(1183)>>) @@ WaErrFields),
      \* AccuWeather
      JObj([Code |-> JStr("Unauthorized"), Message |-> JStr("Api Authorization failed")]),
      JArr(<<JObj([Key |-> JStr("328328")])>>),
      JArr(<<JObj([Key |-> JStr("324505")]), JObj([Key |-> JStr("328328")])>>),
      JArr(<<JObj(AwFields(40))>>),
      JArr(<<JObj(AwFields(0) @@ [PrecipitationType |-> JStr("Rain")])>>),
      JArr(<<JObj(AwFields(0) @@ [PrecipitationType |-> JStr("Hail")])>>) }

(***************************************************************************)
(* utils.rs: restful_get::<R, E>(url)                                      *)
(***************************************************************************)
\* The future of one restful_get call. pc: "idle" (no call), "get" (awaiting
\* reqwest::get), "text" (awaiting response.text()), "done" (returned).
\* body is the text the server sends; text is what response.text() returned;
\* applied lists the types whose from_str ran; sent counts the GETs issued.
RgIdle ==
    [pc |-> "idle", url |-> NoUrl, R |-> "", E |-> "", is_ok |-> FALSE, code |-> 0,
     body |-> JBad, text |-> JBad, result |-> Pending, applied |-> <<>>, sent |-> 0]

\* Entering restful_get: nothing has run before the first await.
RestfulGetCall(url, R, E) == [RgIdle EXCEPT !.pc = "get", !.url = url, !.R = R, !.E = E]

\* A status branch that looks at the body instead of the status: whatever
\* decodes as R is a success.
DecodeByShape(R, E, is_ok, code, text) ==
    IF FromStr(R, text).ok
    THEN [result |-> Ok(FromStr(R, text).val), applied |-> <<R>>]
    ELSE [result |->
            (IF FromStr(E, text).ok
             THEN Err(<<ApiErrorItem(FromStr(E, text).val)>>)
             ELSE Err(<<CtxCode("Could not parse response as failure (HTTP {code})", code),
                        SerdeError>>)),
          applied |-> <<R, E>>]

\* A success branch that falls back to a default value when R does not decode.
DecodeOrDefault(R, E, is_ok, code, text) ==
    IF is_ok
    THEN [result |-> Ok(FromStr(R, text).val), applied |-> <<R>>]
    ELSE [result |->
            (IF FromStr(E, text).ok
             THEN Err(<<ApiErrorItem(FromStr(E, text).val)>>)
             ELSE Err(<<CtxCode("Could not parse response as failure (HTTP {code})", code),
                        SerdeError>>)),
          applied |-> <<E>>]

\* A failure branch whose context does not name the status.
DecodeNoCode(R, E, is_ok, code, text) ==
    IF is_ok
    THEN [result |->
            WithContext(IF FromStr(R, text).ok THEN Ok(FromStr(R, text).val)
                        ELSE Err(<<SerdeError>>),
                        Ctx("Could not parse response as successful result")),
          applied |-> <<R>>]
    ELSE [result |->
            (IF FromStr(E, text).ok
             THEN Err(<<ApiErrorItem(FromStr(E, text).val)>>)
             ELSE Err(<<Ctx("Could not parse response as failure"), SerdeError>>)),
          applied |-> <<E>>]

\* A decoder that tries the failure shape first, whatever the status.
DecodeFailureFirst(R, E, is_ok, code, text) ==
    IF FromStr(E, text).ok
    THEN [result |-> Err(<<ApiErrorItem(FromStr(E, text).val)>>), applied |-> <<E>>]
    ELSE [result |->
            WithContext(IF FromStr(R, text).ok THEN Ok(FromStr(R, text).val)
                        ELSE Err(<<SerdeError>>),
                        Ctx("Could not parse response as successful result")),
          applied |-> <<E, R>>]

\* utils.rs 61-68: branch on the status, decode the text as R or as E.
RestfulGetDecode(R, E, is_ok, code, text) ==
    IF is_ok
    THEN [result |->
            WithContext(IF FromStr(R, text).ok THEN Ok(FromStr(R, text).val)
                        ELSE Err(<<SerdeError>>),
                        Ctx("Could not parse response as successful result")),
          applied |-> <<R>>]
    ELSE [result |->
            (IF FromStr(E, text).ok
             THEN Err(<<ApiErrorItem(FromStr(E, text).val)>>)
             ELSE Err(<<CtxCode("Could not parse response as failure (HTTP {code})", code),
                        SerdeError>>)),
          applied |-> <<E>>]

\* rg with the call returned: the future completes with res.
Returned(res) == [rg EXCEPT !.pc = "done", !.result = res]
Logged(res) == Append(rgLog, [url |-> rg.url, result |-> res])

\* A restful_get that repeats the GET once when the transport fails.
RestfulGetSendRetry ==
    /\ rg.pc = "get"
    /\ \/ LET res == Err(<<Ctx("HTTP GET request failed"), ReqwestError>>)
          IN  /\ gets' = gets \o <<rg.url, rg.url>>
              /\ rg' = [Returned(res) EXCEPT !.sent = @ + 2]
              /\ rgLog' = Logged(res)
       \/ /\ gets' = Append(gets, rg.url)
          /\ \E status \in Statuses, body \in Bodies :
                rg' = [rg EXCEPT !.pc = "text", !.sent = @ + 1, !.is_ok = IsSuccess(status),
                         !.code = status, !.body = body]
          /\ rgLog' = rgLog
    /\ UNCHANGED <<regVars, cliVars, section, created, gw>>

\* utils.rs 49-54: reqwest::get(url).await. The GET is issued; either the
\* transport fails and the call returns, or a response arrives and its status
\* is kept.
RestfulGetSend ==
    /\ rg.pc = "get"
    /\ gets' = Append(gets, rg.url)
    /\ \/ LET res == Err(<<Ctx("HTTP GET request failed"), ReqwestError>>)
          IN  /\ rg' = [Returned(res) EXCEPT !.sent = @ + 1]
              /\ rgLog' = Logged(res)
       \/ /\ \E status \in Statuses, body \in Bodies :
                rg' = [rg EXCEPT !.pc = "text", !.sent = @ + 1, !.is_ok = IsSuccess(status),
                         !.code = status, !.body = body]
          /\ rgLog' = rgLog
    /\ UNCHANGED <<regVars, cliVars, section, created, gw>>

\* utils.rs 56-68: response.text().await, then the decode. Reading the body
\* fails, or yields the text the server sent.
RestfulGetText ==
    /\ rg.pc = "text"
    /\ \/ LET res == Err(<<Ctx("Could not obtain response text"), ReqwestError>>)
          IN  /\ rg' = Returned(res)
              /\ rgLog' = Logged(res)
       \/ LET d == RestfulGetDecode(rg.R, rg.E, rg.is_ok, rg.code, rg.body)
          IN  /\ rg' = [Returned(d.result) EXCEPT !.text = rg.body, !.applied = d.applied]
              /\ rgLog' = Logged(d.result)
    /\ UNCHANGED <<regVars, cliVars, section, created, gw, gets>>

(***************************************************************************)
(* provider/*.rs: Provider::info and Provider::new                         *)
(***************************************************************************)
\* Section::new(): no keys.
EmptySection == NoFields
\* Config sections handed to create.
Sections ==
    { EmptySection,
      [apikey |-> "XYZ"],
      [apikey |-> "banana"],
      [region |-> "eu"],
      [apikey |-> "XYZ", region |-> "eu"] }

ApikeyParam ==
    [id |-> "apikey", name |-> "User's API key",
     description |-> "used to authenticate user requests"]
OpenWeatherInfo ==
    [description |-> "OpenWeather (https://openweathermap.org/); doesn't support specific dates, only current conditions",
     params |-> <<ApikeyParam>>]
WeatherApiInfo ==
    [description |-> "WeatherAPI (https://www.weatherapi.com/)", params |-> <<ApikeyParam>>]
AccuWeatherInfo ==
    [description |-> "AccuWeather (https://www.accuweather.com/)", params |-> <<ApikeyParam>>]

\* A constructor that takes an absent key as the empty string.
NewOrDefault(T, config) ==
    Ok([T |-> T, apikey |-> IF "apikey" \in DOMAIN config THEN config["apikey"] ELSE ""])

\* OpenWeather::new, WeatherApi::new, AccuWeather::new: the three bodies are
\* the same code.
ProviderNew(T, config) ==
    IF "apikey" \in DOMAIN config
    THEN Ok([T |-> T, apikey |-> config["apikey"]])
    ELSE Err(<<MsgArg("Missing parameter '{}'", "apikey")>>)

\* ProviderFactoryT::<T>::info
FactoryInfo(T) ==
    CASE T = "OpenWeather" -> OpenWeatherInfo
      [] T = "WeatherApi" -> WeatherApiInfo
      [] T = "AccuWeather" -> AccuWeatherInfo

\* ProviderFactoryT::<T>::create
FactoryCreate(T, config) == ProviderNew(T, config)

\* No create call yet.
NotCreated == [pc |-> "none", name |-> "", T |-> "", result |-> Pending]

\* registry.get(name) and factory.create(&section), for a registered name.
Create ==
    /\ created.pc = "none"
    /\ \E name \in Names :
          /\ ContainsKey(providers, name)
          /\ created' = [pc |-> "done", name |-> name, T |-> Get(providers, name),
                         result |-> FactoryCreate(Get(providers, name), section)]
    /\ UNCHANGED <<regVars, cliVars, section, gw, rg, gets, rgLog>>

(***************************************************************************)
(* provider/*.rs: Provider::get_weather                                    *)
(***************************************************************************)
\* The future of one get_weather call. pc: "idle" (no call), "locate"
\* (awaiting the location request), "fetch" (awaiting the weather request),
\* "done" (returned). data_url is the weather URL as far as it is formatted
\* before the first await; locs is the decoded location list.
GwIdle ==
    [pc |-> "idle", T |-> "", location |-> "", date |-> NoDate, data_url |-> NoUrl,
     locs |-> <<>>, result |-> Pending]

WeatherInfo(weather, temperature, wind_speed, humidity) ==
    [weather |-> weather, temperature |-> temperature, wind_speed |-> wind_speed,
     humidity |-> humidity]

\* The provider instance a call runs on.
Self == created.result.val

\* A get_weather future of provider type T can be created and polled: the
\* instance exists and no other call is in flight.
CanCall(T) ==
    /\ created.pc = "done" /\ created.result.ok /\ created.T = T
    /\ gw.pc \in {"idle", "done"}

\* get_weather returns res: the future completes.
Return(res) == gw' = [gw EXCEPT !.pc = "done", !.result = res]

UnsupportedDate == Err(<<Msg("Sorry, requesting weather for specific date isn't supported")>>)

\* openweather.rs 168-175: weather condition code to WeatherKind
OpenWeatherKind(id) ==
    IF (200 <= id /\ id <= 399) \/ (500 <= id /\ id <= 599) THEN "Rain"
    ELSE IF 600 <= id /\ id <= 699 THEN "Snow"
    ELSE IF id = 800 THEN "Clear"
    ELSE IF 801 <= id /\ id <= 809 THEN "Clouds"
    ELSE IF 700 <= id /\ id <= 799 THEN "Fog"
    ELSE "Unknown"

\* An OpenWeather::get_weather that does not look at the date.
OpenWeatherGetWeatherAnyDate ==
    /\ CanCall("OpenWeather")
    /\ \E location \in Locations, date \in {NoDate} \cup Dates :
          /\ gets' = <<>> /\ rgLog' = <<>>
          /\ gw' = [GwIdle EXCEPT !.pc = "locate", !.T = "OpenWeather",
                      !.location = location, !.date = date,
                      !.data_url = Url("https://api.openweathermap.org/data/2.5/weather",
                                       Self.apikey, "", 0, 0, "", <<>>)]
          /\ rg' = RestfulGetCall(Url("https://api.openweathermap.org/geo/1.0/direct",
                                      Self.apikey, location, 0, 0, "", <<>>),
                                  "openweather::CoordsVec", "openweather::ApiError")
    /\ UNCHANGED <<regVars, cliVars, section, created>>

\* openweather.rs 129-147: the call, up to the first await.
OpenWeatherGetWeather ==
    /\ CanCall("OpenWeather")
    /\ \E location \in Locations, date \in {NoDate} \cup Dates :
          /\ gets' = <<>> /\ rgLog' = <<>>
          /\ IF date.some
             THEN /\ gw' = [GwIdle EXCEPT !.pc = "done", !.T = "OpenWeather",
                              !.location = location, !.date = date,
                              !.result = UnsupportedDate]
                  /\ rg' = RgIdle
             ELSE /\ gw' = [GwIdle EXCEPT !.pc = "locate", !.T = "OpenWeather",
                              !.location = location, !.date = date,
                              !.data_url = Url("https://api.openweathermap.org/data/2.5/weather",
                                               Self.apikey, "", 0, 0, "", <<>>)]
                  /\ rg' = RestfulGetCall(Url("https://api.openweathermap.org/geo/1.0/direct",
                                              Self.apikey, location, 0, 0, "", <<>>),
                                          "openweather::CoordsVec", "openweather::ApiError")
    /\ UNCHANGED <<regVars, cliVars, section, created>>

\* An OpenWeather continuation that asks for the weather whatever the location
\* request gave, at the last coordinates of the list (or at 0, 0).
OpenWeatherLocatedAnyway ==
    /\ gw.T = "OpenWeather" /\ gw.pc = "locate" /\ rg.pc = "done"
    /\ LET locs == IF rg.result.ok THEN rg.result.val ELSE <<>>
           last == IF locs = <<>> THEN [lat |-> 0, lon |-> 0] ELSE locs[Len(locs)]
       IN  /\ gw' = [gw EXCEPT !.pc = "fetch", !.locs = locs]
           /\ rg' = RestfulGetCall([gw.data_url EXCEPT !.lat = Fixed4(last.lat),
                                                       !.lon = Fixed4(last.lon)],
                                   "openweather::WeatherData", "openweather::ApiError")
    /\ UNCHANGED <<regVars, cliVars, section, created, gets, rgLog>>

\* openweather.rs 149-161: the location request returned; take the first
\* coordinates and ask for the weather.
OpenWeatherLocated ==
    /\ gw.T = "OpenWeather" /\ gw.pc = "locate" /\ rg.pc = "done"
    /\ LET locs == WithContext(rg.result, Ctx("Could not obtain location's coordinates"))
       IN  IF ~locs.ok
           THEN Return(locs) /\ rg' = RgIdle
           ELSE IF locs.val = <<>>
           THEN /\ Return(Err(<<MsgArg("Could not obtain coordinates of location '{location}'",
                                       gw.location)>>))
                /\ rg' = RgIdle
           ELSE /\ gw' = [gw EXCEPT !.pc = "fetch", !.locs = locs.val]
                /\ rg' = RestfulGetCall([gw.data_url EXCEPT !.lat = Fixed4(locs.val[1].lat),
                                                            !.lon = Fixed4(locs.val[1].lon)],
                                        "openweather::WeatherData", "openweather::ApiError")
    /\ UNCHANGED <<regVars, cliVars, section, created, gets, rgLog>>

\* openweather.rs 161-186: the weather request returned.
OpenWeatherFetched ==
    /\ gw.T = "OpenWeather" /\ gw.pc = "fetch" /\ rg.pc = "done"
    /\ LET resp == WithContext(rg.result, Ctx("Could not obtain weather forecast"))
       IN  IF ~resp.ok
           THEN Return(resp)
           ELSE Return(Ok(WeatherInfo(
                    IF resp.val.weather = <<>> THEN "Unknown"
                    ELSE OpenWeatherKind(resp.val.weather[1]),
                    resp.val.temp, resp.val.speed, resp.val.humidity)))
    /\ rg' = RgIdle
    /\ UNCHANGED <<regVars, cliVars, section, created, gets, rgLog>>

\* accuweather.rs 13, 179: km/h to m/s, "* (1.0 / 3.6)". Exact on the
\* multiples of 18 km/h, which is what the responses hold.
KmhToMs(v) == (v * 10) \div 36

\* accuweather.rs 182-196: precipitation type and cloud cover to WeatherKind
AccuWeatherKind(precipitation_type, cloud_cover) ==
    IF precipitation_type \in {"Snow", "Ice", "Mixed"} THEN "Snow"
    ELSE IF precipitation_type = "Rain" THEN "Rain"
    ELSE IF cloud_cover > 5 THEN "Clouds"
    ELSE "Clear"

\* accuweather.rs 135-152: the call, up to the first await.
AccuWeatherGetWeather ==
    /\ CanCall("AccuWeather")
    /\ \E location \in Locations, date \in {NoDate} \cup Dates :
          /\ gets' = <<>> /\ rgLog' = <<>>
          /\ IF date.some
             THEN /\ gw' = [GwIdle EXCEPT !.pc = "done", !.T = "AccuWeather",
                              !.location = location, !.date = date,
                              !.result = UnsupportedDate]
                  /\ rg' = RgIdle
             ELSE /\ gw' = [GwIdle EXCEPT !.pc = "locate", !.T = "AccuWeather",
                              !.location = location, !.date = date,
                              !.data_url =
                                 Url("http://dataservice.accuweather.com/currentconditions/v1/",
                                     Self.apikey, "", 0, 0, "", <<>>)]
                  /\ rg' = RestfulGetCall(
                              Url("https://dataservice.accuweather.com/locations/v1/cities/search",
                                  Self.apikey, location, 0, 0, "", <<>>),
                              "accuweather::LocationData", "accuweather::ApiError")
    /\ UNCHANGED <<regVars, cliVars, section, created>>

\* accuweather.rs 154-168: the location request returned; take the first
\* location key and ask for the current conditions.
AccuWeatherLocated ==
    /\ gw.T = "AccuWeather" /\ gw.pc = "locate" /\ rg.pc = "done"
    /\ LET locations == WithContext(rg.result,
                                    CtxArg("Could not obtain location key for {location}",
                                           gw.location))
       IN  IF ~locations.ok
           THEN Return(locations) /\ rg' = RgIdle
           ELSE IF locations.val = <<>>
           THEN /\ Return(Err(<<MsgArg("Could not obtain location key for {location}",
                                       gw.location)>>))
                /\ rg' = RgIdle
           ELSE /\ gw' = [gw EXCEPT !.pc = "fetch", !.locs = locations.val]
                /\ rg' = RestfulGetCall([gw.data_url EXCEPT !.key = locations.val[1]],
                                        "accuweather::WeatherData", "accuweather::ApiError")
    /\ UNCHANGED <<regVars, cliVars, section, created, gets, rgLog>>

\* accuweather.rs 168-204: the conditions request returned.
AccuWeatherFetched ==
    /\ gw.T = "AccuWeather" /\ gw.pc = "fetch" /\ rg.pc = "done"
    /\ LET data == WithContext(rg.result, Ctx("Could not obtain forecast data"))
       IN  IF ~data.ok
           THEN Return(data)
           ELSE IF data.val = <<>>
           THEN Return(Err(<<Msg("No current condition entries")>>))
           ELSE LET condition == data.val[1]
                IN  Return(Ok(WeatherInfo(
                        AccuWeatherKind(condition.precipitation_type, condition.cloud_cover),
                        condition.temperature,
                        KmhToMs(condition.wind),
                        condition.relative_humidity)))
    /\ rg' = RgIdle
    /\ UNCHANGED <<regVars, cliVars, section, created, gets, rgLog>>

\* weatherapi.rs 144-155: condition code to WeatherKind
WeatherApiKind(code) ==
    IF code = 1000 THEN "Clear"
    ELSE IF code \in {1003, 1006, 1009, 1087} THEN "Clouds"
    ELSE IF code \in {1030, 1135, 1147} THEN "Fog"
    ELSE IF code \in {1063, 1072, 1150, 1153, 1168, 1171, 1180, 1183, 1186, 1189, 1192,
                      1195, 1198, 1201, 1240, 1243, 1246, 1273, 1276} THEN "Rain"
    ELSE IF code \in {1066, 1069, 1114, 1117, 1204, 1207, 1210, 1213, 1216, 1219, 1222,
                      1225, 1237, 1249, 1252, 1255, 1258, 1261, 1264, 1279, 1282} THEN "Snow"
    ELSE "Unknown"

\* weatherapi.rs 129-131: "{}-{}-{}" of year, month and day ('-' is byte 45).
WeatherApiDt(date) ==
    Decimal(date.year) \o <<45>> \o Decimal(date.month) \o <<45>> \o Decimal(date.day)

\* weatherapi.rs 121-135: the call, up to the first await. No date means today.
WeatherApiGetWeather ==
    /\ CanCall("WeatherApi")
    /\ \E location \in Locations, date \in {NoDate} \cup Dates, today \in DateToday :
          LET d == IF date.some THEN date ELSE today
          IN  /\ gets' = <<>> /\ rgLog' = <<>>
              /\ gw' = [GwIdle EXCEPT !.pc = "fetch", !.T = "WeatherApi",
                          !.location = location, !.date = date]
              /\ rg' = RestfulGetCall(Url("https://api.weatherapi.com/v1/history.json",
                                          Self.apikey, location, 0, 0, "", WeatherApiDt(d)),
                                      "weatherapi::WeatherData", "weatherapi::ApiError")
    /\ UNCHANGED <<regVars, cliVars, section, created>>

\* weatherapi.rs 133-164: the history request returned.
WeatherApiFetched ==
    /\ gw.T = "WeatherApi" /\ gw.pc = "fetch" /\ rg.pc = "done"
    /\ LET resp == WithContext(rg.result, Ctx("Request to historical weather data failed"))
       IN  IF ~resp.ok
           THEN Return(resp)
           ELSE IF resp.val = <<>>
           THEN Return(Err(<<Msg("Could not parse response: missing forecast day data")>>))
           ELSE LET day == resp.val[1]
                IN  Return(Ok(WeatherInfo(WeatherApiKind(day.code), day.avgtemp_c,
                                          day.maxwind_kph, day.avghumidity)))
    /\ rg' = RgIdle
    /\ UNCHANGED <<regVars, cliVars, section, created, gets, rgLog>>

(***************************************************************************)
(* main.rs: TOML values and the texts of the command line                  *)
(***************************************************************************)
\* toml::Value: a string, an integer, a boolean or a table (the variants the
\* runs produce); the fields a variant does not use keep their defaults.
TomlValue(type, str, int, bool, table) ==
    [type |-> type, str |-> str, int |-> int, bool |-> bool, table |-> table]
\* toml::Table::new()
EmptyTable == NoFields
TomlString(str) == TomlValue("String", str, 0, FALSE, EmptyTable)
TomlInteger(int) == TomlValue("Integer", "", int, FALSE, EmptyTable)
TomlBoolean(bool) == TomlValue("Boolean", "", 0, bool, EmptyTable)
\* From<Table> for Value (.into())
TomlTable(table) == TomlValue("Table", "", 0, FALSE, table)

\* Table::insert: the entry is added or replaced.
Insert(table, key, value) ==
    [k \in DOMAIN table \cup {key} |-> IF k = key THEN value ELSE table[k]]
\* Table::remove: no entry under the key is no change.
Remove(table, key) == [k \in DOMAIN table \ {key} |-> table[k]]
\* Table::is_empty
IsEmpty(table) == DOMAIN table = {}

\* The i-th character of a text.
CharAt(s, i) == SubSeq(s, i, i)
\* char::is_ascii_digit and the digit's value
IsDigit(c) == \E d \in 0..9 : CharAt("0123456789", d + 1) = c
DigitOf(c) == CHOOSE d \in 0..9 : CharAt("0123456789", d + 1) = c
AllDigits(s) == Len(s) > 0 /\ \A i \in 1..Len(s) : IsDigit(CharAt(s, i))
\* The number a text of decimal digits denotes.
RECURSIVE ParseDecimal(_)
ParseDecimal(s) ==
    IF Len(s) = 0 THEN 0
    ELSE 10 * ParseDecimal(SubSeq(s, 1, Len(s) - 1)) + DigitOf(CharAt(s, Len(s)))

\* str::split_once('='): the text before and the text after the first '=',
\* None when the text holds no '='.
SplitOnce(s) ==
    IF \E i \in 1..Len(s) : CharAt(s, i) = "="
    THEN LET at == CHOOSE i \in 1..Len(s) :
                       /\ CharAt(s, i) = "="
                       /\ \A j \in 1..(i - 1) : CharAt(s, j) # "="
         IN  [some |-> TRUE, name |-> SubSeq(s, 1, at - 1),
              value |-> SubSeq(s, at + 1, Len(s))]
    ELSE [some |-> FALSE, name |-> "", value |-> ""]

\* The text between two quote characters q, when s is such a quoted text
\* with no q (and no escape) inside.
IsQuoted(s, q) ==
    /\ Len(s) >= 2 /\ CharAt(s, 1) = q /\ CharAt(s, Len(s)) = q
    /\ \A i \in 2..(Len(s) - 1) : CharAt(s, i) \notin {q, "\\"}
Unquoted(s) == SubSeq(s, 2, Len(s) - 1)

TomlError == Item("toml::de::Error", "", 0, "", NoFields)

\* toml::Value::deserialize(ValueDeserializer::new(text)): the text is read as
\* a TOML value expression. Of the TOML grammar: basic and literal strings
\* without escapes, booleans and unsigned decimal integers; every other text
\* of the runs (a bare word, an empty text, a text with '=' outside quotes) is
\* no TOML value.
ValueFromStr(text) ==
    IF IsQuoted(text, "\"") \/ IsQuoted(text, "'") THEN Ok(TomlString(Unquoted(text)))
    ELSE IF text \in {"true", "false"} THEN Ok(TomlBoolean(text = "true"))
    ELSE IF AllDigits(text) /\ (Len(text) = 1 \/ CharAt(text, 1) # "0")
    THEN Ok(TomlInteger(ParseDecimal(text)))
    ELSE Err(<<TomlError>>)

\* The shapes of a date text (month 1-12, day 1-31) and of a local time text.
IsDateText(s) ==
    /\ Len(s) = 10 /\ CharAt(s, 5) = "-" /\ CharAt(s, 8) = "-"
    /\ AllDigits(SubSeq(s, 1, 4)) /\ AllDigits(SubSeq(s, 6, 7)) /\ AllDigits(SubSeq(s, 9, 10))
    /\ ParseDecimal(SubSeq(s, 6, 7)) \in 1..12
    /\ ParseDecimal(SubSeq(s, 9, 10)) \in 1..31
IsTimeText(s) ==
    /\ Len(s) = 8 /\ CharAt(s, 3) = ":" /\ CharAt(s, 6) = ":"
    /\ AllDigits(SubSeq(s, 1, 2)) /\ AllDigits(SubSeq(s, 4, 5)) /\ AllDigits(SubSeq(s, 7, 8))
\* toml::value::Datetime::from_str(text), then its date field: a full date
\* (YYYY-MM-DD), a local time (HH:MM:SS, no date), or a parse error.
DatetimeFromStr(s) ==
    IF IsDateText(s)
    THEN Ok(SomeDate(ParseDecimal(SubSeq(s, 1, 4)), ParseDecimal(SubSeq(s, 6, 7)),
                     ParseDecimal(SubSeq(s, 9, 10))))
    ELSE IF IsTimeText(s) THEN Ok(NoDate)
    ELSE Err(<<TomlError>>)

(***************************************************************************)
(* main.rs: the commands                                                   *)
(***************************************************************************)
\* main.rs 290-293: the registry main fills in.
MainRegistry ==
    VacantInsert(VacantInsert(RegistryNew, "openweather", "OpenWeather"),
                 "weatherapi", "WeatherApi")
\* The same with the AccuWeather provider of accuweather.rs registered too.
FullRegistry == VacantInsert(MainRegistry, "accuweather", "AccuWeather")

\* Bounds of the runs: processes started one after the other on one config file.
MaxRuns == 4

DEFAULT_CONFIGURE_LOCATION == "London"
ACTIVE_ENTRY == "current"

\* Option<String>
NoName == [some |-> FALSE, name |-> ""]
SomeName(name) == [some |-> TRUE, name |-> name]

\* CliCmd: Configure { provider, parameters }, Get { address, date, provider,
\* set_default }, Clear { providers }; the fields a variant does not have keep
\* their defaults.
CliCmd(verb, provider, parameters, address, date, set_default, names) ==
    [verb |-> verb, provider |-> provider, parameters |-> parameters, address |-> address,
     date |-> date, set_default |-> set_default, providers |-> names]
NoCmd == CliCmd("", NoName, <<>>, "", "", FALSE, <<>>)
Configure(provider, parameters) ==
    CliCmd("configure", SomeName(provider), parameters, "", "", FALSE, <<>>)
GetCmd(address, date, provider, set_default) ==
    CliCmd("get", provider, <<>>, address, date, set_default, <<>>)
Clear(names) == CliCmd("clear", NoName, <<>>, "", "", FALSE, names)

\* Provider names given on the command line: the registered ones and one
\* that is not.
CliNames == {"openweather", "weatherapi", "stub"}

\* Parameter lists given to configure.
ParameterLists ==
    { <<>>,
      <<"apikey=\"XYZ\"">>,
      <<"apikey=XYZ">>,
      <<"apikey='banana'">>,
      <<"apikey=42">>,
      <<"apikey=\"b=c\"">>,
      <<"a=b=c">>,
      <<"apikey">>,
      <<"apikey=\"XYZ\"", "region">>,
      <<"region", "apikey=\"XYZ\"">>,
      <<"apikey=XYZ", "region">>,
      <<"region='eu'">>,
      <<"region=eu">>,
      <<"apikey=\"XYZ\"", "region='eu'">> }

\* Date arguments given to get.
DateArgs == {"now", "2023-02-05", "07:32:00", "tomorrow"}

\* Provider lists given to clear.
ClearLists ==
    { <<>>, <<"all">>, <<"openweather">>, <<"weatherapi">>, <<"stub">>,
      <<"weatherapi", "stub">>, <<"openweather", "weatherapi">> }

\* Cli::parse(): the command lines of the runs.
Commands ==
    {Configure(p, l) : p \in CliNames, l \in ParameterLists}
    \cup {GetCmd("Kyiv", d, p, s) :
            d \in DateArgs, p \in {NoName} \cup {SomeName(n) : n \in CliNames},
            s \in BOOLEAN}
    \cup {Clear(l) : l \in ClearLists}

\* date_now(): whatever day the local clock says.
DateNow == Dates

\* The future of Provider::read_weather(location, date): what the call
\* returns. A WeatherApi returns what its history request gives. For an
\* OpenWeather, which serves current conditions only, both answers are
\* kept: the refusal get_weather gives to a call with a date
\* (openweather.rs 129-141), and a forecast.
ReadWeather(T, location, date) ==
    (IF T = "OpenWeather" THEN {UnsupportedDate} ELSE {})
    \cup { Ok(WeatherInfo("Clear", 20, 1, 50)),
           Err(<<Ctx("Request to historical weather data failed"), ReqwestError>>),
           Err(<<Ctx("Request to historical weather data failed"),
                 ApiErrorItem([code |-> 2008, message |-> "API key has been disabled."])>>) }

\* A main that goes on to write_config after a command that failed.
FailThenWrite(res) ==
    /\ outcome' = res
    /\ pc' = "write"

\* The command stops with an error: main returns it, nothing is written.
Fail(res) ==
    /\ outcome' = res
    /\ pc' = "failed"

\* main.rs 175-183: the loop over the parameters, from the table built so far.
RECURSIVE CollectParameters(_, _)
CollectParameters(parameters, table) ==
    IF parameters = <<>> THEN Ok(table)
    ELSE LET param == Head(parameters)
             split == SplitOnce(param)
             value == WithContext(ValueFromStr(split.value),
                                  CtxArg("When parsing value of parameter {param}", param))
         IN  IF ~split.some
             THEN Err(<<MsgArg("Argument '{param}' cannot be parsed as '<name>=<value>' parameter",
                               param)>>)
             ELSE IF ~value.ok THEN value
             ELSE CollectParameters(Tail(parameters), Insert(table, split.name, value.val))

\* The call of the provider's read_weather, as the history keeps it.
Call(T, location, date) == [T |-> T, location |-> location, date |-> date]

\* A call of factory.create, as the history keeps it.
Creation(T, table) == [T |-> T, config |-> table]

\* main.rs 158-196: configure_provider up to the await of read_weather.
ConfigureProvider ==
    /\ pc = "command" /\ cmd.verb = "configure"
    /\ LET provider == cmd.provider.name
           factory == Get(providers, provider)
           collected == CollectParameters(cmd.parameters, EmptyTable)
           instance == WithContext(FactoryCreate(factory, collected.val),
                                   CtxArg("When configuring {provider}", provider))
       IN  IF ~ContainsKey(providers, provider)
           THEN Fail(Err(<<MsgArg("No such provider: {provider}", provider)>>))
                /\ UNCHANGED <<new_config, calls, creates>>
           ELSE IF cmd.parameters = <<>>
           THEN Fail(Err(<<Msg("Sorry, interactive mode not implemented yet")>>))
                /\ UNCHANGED <<new_config, calls, creates>>
           ELSE IF ~collected.ok
           THEN Fail(collected) /\ UNCHANGED <<new_config, calls, creates>>
           ELSE IF ~instance.ok
           THEN /\ Fail(instance)
                /\ creates' = Append(creates, Creation(factory, collected.val))
                /\ UNCHANGED <<new_config, calls>>
           ELSE \E today \in DateNow :
                   /\ new_config' = collected.val
                   /\ creates' = Append(creates, Creation(factory, collected.val))
                   /\ calls' = Append(calls, Call(factory, DEFAULT_CONFIGURE_LOCATION, today))
                   /\ pc' = "await"
                   /\ UNCHANGED outcome
    /\ UNCHANGED <<regVars, provVars, disk, cmd, cfg, runs, lastClear, loaded, writes>>

\* A configure that makes its provider the default one whenever the table
\* has no default entry.
StoreEntryDefaulting(table, provider, entry) ==
    Insert(IF ACTIVE_ENTRY \notin DOMAIN table
           THEN Insert(table, ACTIVE_ENTRY, TomlString(provider))
           ELSE table,
           provider, TomlTable(entry))

\* main.rs 197-202: the new entry is put in the table under the provider's
\* name; the provider becomes the default one if the table was empty.
StoreEntry(table, provider, entry) ==
    Insert(IF IsEmpty(table) THEN Insert(table, ACTIVE_ENTRY, TomlString(provider)) ELSE table,
           provider, TomlTable(entry))

\* main.rs 192-204: read_weather returned; the new entry is written to the
\* table when the check succeeded.
ConfigureChecked ==
    /\ pc = "await" /\ cmd.verb = "configure"
    /\ LET provider == cmd.provider.name
           call == calls[Len(calls)]
       IN  \E answer \in ReadWeather(call.T, call.location, call.date) :
              LET res == WithContext(answer, CtxArg("When configuring {provider}", provider))
              IN  IF ~res.ok
                  THEN Fail(res) /\ UNCHANGED cfg
                  ELSE /\ cfg' = StoreEntry(cfg, provider, new_config)
                       /\ outcome' = Ok(NoFields)
                       /\ pc' = "write"
    /\ UNCHANGED <<regVars, provVars, disk, cmd, new_config, calls, runs, lastClear,
                   loaded, writes, creates>>

\* A name taken from the default entry whenever the table has one, the
\* argument being used only without it.
ProviderNameDefaultFirst(provider, table) ==
    IF ACTIVE_ENTRY \in DOMAIN table /\ table[ACTIVE_ENTRY].type = "String"
    THEN Ok(table[ACTIVE_ENTRY].str)
    ELSE IF provider.some THEN Ok(provider.name)
    ELSE Err(<<Msg("Active provider not specified. Please use -sp <provider_name> to specify new default one")>>)

\* main.rs 217-228: the name of the provider get_forecast uses (the messages without their backquotes).
ProviderName(provider, table) ==
    IF provider.some THEN Ok(provider.name)
    ELSE IF ACTIVE_ENTRY \notin DOMAIN table
    THEN Err(<<Msg("Active provider not specified. Please use -sp <provider_name> to specify new default one")>>)
    ELSE IF table[ACTIVE_ENTRY].type # "String"
    THEN Err(<<Msg("Invalid config entry! Please set new current provider manually via -sp <provider_name>")>>)
    ELSE Ok(table[ACTIVE_ENTRY].str)

\* main.rs 242-249: the date get_forecast asks for; today when the argument is "now".
ForecastDate(date) ==
    IF date = "now" THEN {Ok(today) : today \in DateNow}
    ELSE LET parsed == WithContext(DatetimeFromStr(date), Ctx("When parsing forecast date"))
         IN  IF ~parsed.ok THEN {parsed}
             ELSE IF ~parsed.val.some THEN {Err(<<Msg("Missing actual forecast date")>>)}
             ELSE {parsed}

\* main.rs 208-251: get_forecast up to the await of read_weather. set_default
\* is not read.
GetForecast ==
    /\ pc = "command" /\ cmd.verb = "get"
    /\ LET name == ProviderName(cmd.provider, cfg)
           provider_name == name.val
           factory == Get(providers, provider_name)
           instance == WithContext(FactoryCreate(factory, cfg[provider_name].table),
                                   CtxArg("When trying to construct provider '{provider_name}'",
                                          provider_name))
       IN  IF ~name.ok THEN Fail(name) /\ UNCHANGED <<calls, creates>>
           ELSE IF ~ContainsKey(providers, provider_name)
           THEN Fail(Err(<<MsgArg("No such provider: {provider_name}", provider_name)>>))
                /\ UNCHANGED <<calls, creates>>
           ELSE IF provider_name \notin DOMAIN cfg
           THEN Fail(Err(<<MsgArg("Missing config for provider '{provider_name}'",
                                  provider_name)>>))
                /\ UNCHANGED <<calls, creates>>
           ELSE /\ creates' = Append(creates, Creation(factory, cfg[provider_name].table))
                /\ IF ~instance.ok THEN Fail(instance) /\ UNCHANGED calls
                   ELSE \E date \in ForecastDate(cmd.date) :
                           IF ~date.ok THEN Fail(date) /\ UNCHANGED calls
                           ELSE /\ calls' = Append(calls, Call(factory, cmd.address, date.val))
                                /\ pc' = "await"
                                /\ UNCHANGED outcome
    /\ UNCHANGED <<regVars, provVars, disk, cmd, cfg, new_config, runs, lastClear,
                   loaded, writes>>

\* main.rs 251, 306-308: read_weather returned; main prints the forecast.
GetForecastReturned ==
    /\ pc = "await" /\ cmd.verb = "get"
    /\ LET call == calls[Len(calls)]
       IN  \E answer \in ReadWeather(call.T, call.location, call.date) :
              /\ outcome' = answer
              /\ pc' = IF answer.ok THEN "write" ELSE "failed"
    /\ UNCHANGED <<regVars, provVars, disk, cmd, cfg, new_config, calls, runs, lastClear,
                   loaded, writes, creates>>

\* main.rs 263-265: every registered name is removed from the table.
RECURSIVE RemoveAll(_, _)
RemoveAll(table, names) ==
    IF names = <<>> THEN table ELSE RemoveAll(Remove(table, Head(names)), Tail(names))

\* A loop that takes a provider without a stored entry for an unknown one.
RECURSIVE ClearStoredOnly(_, _, _)
ClearStoredOnly(registry, table, names) ==
    IF names = <<>> THEN [result |-> Ok(NoFields), config |-> table]
    ELSE LET prov_name == Head(names)
         IN  IF prov_name = "all"
             THEN ClearStoredOnly(registry, RemoveAll(table, Keys(registry)), Tail(names))
             ELSE IF ContainsKey(registry, prov_name) /\ prov_name \in DOMAIN table
             THEN ClearStoredOnly(registry, Remove(table, prov_name), Tail(names))
             ELSE [result |-> Err(<<MsgArg("No such provider: {prov_name}", prov_name)>>),
                   config |-> table]

\* main.rs 260-271: the loop over the names; the table is changed in place, so
\* what was removed before an unknown name stays removed in it.
RECURSIVE ClearLoop(_, _, _)
ClearLoop(registry, table, names) ==
    IF names = <<>> THEN [result |-> Ok(NoFields), config |-> table]
    ELSE LET prov_name == Head(names)
         IN  IF prov_name = "all"
             THEN ClearLoop(registry, RemoveAll(table, Keys(registry)), Tail(names))
             ELSE IF ContainsKey(registry, prov_name)
             THEN ClearLoop(registry, Remove(table, prov_name), Tail(names))
             ELSE [result |-> Err(<<MsgArg("No such provider: {prov_name}", prov_name)>>),
                   config |-> table]

\* A clear that leaves the default entry alone.
ClearDefaultKept(table) == table

\* main.rs 272-278: the default entry goes when it names no entry of the table.
ClearDefault(table) ==
    IF /\ ACTIVE_ENTRY \in DOMAIN table
       /\ table[ACTIVE_ENTRY].type = "String"
       /\ table[ACTIVE_ENTRY].str \notin DOMAIN table
    THEN Remove(table, ACTIVE_ENTRY)
    ELSE table

\* main.rs 254-281: clear_providers
ClearProviders ==
    /\ pc = "command" /\ cmd.verb = "clear"
    /\ LET cleared == ClearLoop(providers, cfg, cmd.providers)
       IN  IF ~cleared.result.ok
           THEN Fail(cleared.result) /\ cfg' = cleared.config
           ELSE /\ cfg' = ClearDefault(cleared.config)
                /\ outcome' = cleared.result
                /\ pc' = "write"
    /\ UNCHANGED <<regVars, provVars, disk, cmd, new_config, calls, runs, lastClear,
                   loaded, writes, creates>>

\* No clear before.
NoClear == <<"">>

\* main.rs 284-293: a process starts: the command line is parsed, the config
\* file read (no file: an empty table) and the registry filled in.
MainStart ==
    /\ pc = "start" /\ runs < MaxRuns
    /\ providers = MainRegistry
    /\ \E command \in Commands : cmd' = command
    /\ cfg' = disk
    /\ new_config' = EmptyTable
    /\ outcome' = Pending
    /\ calls' = <<>>
    /\ runs' = runs + 1
    /\ loaded' = disk
    /\ writes' = 0
    /\ creates' = <<>>
    /\ pc' = "command"
    /\ UNCHANGED <<regVars, provVars, disk, lastClear>>

\* main.rs 334: write_config; the file then holds the table.
WriteConfig ==
    /\ pc = "write"
    /\ disk' = cfg
    /\ writes' = writes + 1
    /\ pc' = "done"
    /\ UNCHANGED <<regVars, provVars, cmd, cfg, new_config, outcome, calls, runs, lastClear,
                   loaded, creates>>

\* main returned: the process is gone.
MainExit ==
    /\ pc \in {"done", "failed"}
    /\ lastClear' = IF pc = "done" /\ cmd.verb = "clear" THEN cmd.providers ELSE NoClear
    /\ pc' = "start"
    /\ cmd' = NoCmd
    /\ cfg' = EmptyTable
    /\ new_config' = EmptyTable
    /\ outcome' = Pending
    /\ calls' = <<>>
    /\ loaded' = EmptyTable
    /\ writes' = 0
    /\ creates' = <<>>
    /\ UNCHANGED <<regVars, provVars, disk, runs>>

(***************************************************************************)
(* Specifications                                                          *)
(***************************************************************************)
NoCall == [name |-> "", factory |-> ""]

\* No process of the client has run: no config file yet.
NoProcess ==
    /\ disk = EmptyTable
    /\ pc = "start"
    /\ cmd = NoCmd
    /\ cfg = EmptyTable
    /\ new_config = EmptyTable
    /\ outcome = Pending
    /\ calls = <<>>
    /\ runs = 0
    /\ lastClear = NoClear
    /\ loaded = EmptyTable
    /\ writes = 0
    /\ creates = <<>>

\* Registration: add_provider calls on a new registry, in any order.
RegInit ==
    /\ providers = RegistryNew
    /\ panicked = FALSE
    /\ regLog = <<>>
    /\ lastCall = NoCall
    /\ section = EmptySection
    /\ created = NotCreated
    /\ gw = GwIdle
    /\ rg = RgIdle
    /\ gets = <<>>
    /\ rgLog = <<>>
    /\ NoProcess
RegNext == AddProvider
RegSpec == RegInit /\ [][RegNext]_vars

\* Providers: one create on a config section, then get_weather calls on the
\* instance, each run to completion.
Init ==
    /\ providers \in {MainRegistry, FullRegistry}
    /\ panicked = FALSE
    /\ regLog = Keys(providers)
    /\ lastCall = NoCall
    /\ section \in Sections
    /\ created = NotCreated
    /\ gw = GwIdle
    /\ rg = RgIdle
    /\ gets = <<>>
    /\ rgLog = <<>>
    /\ NoProcess
Next ==
    \/ Create
    \/ OpenWeatherGetWeather \/ OpenWeatherLocated \/ OpenWeatherFetched
    \/ AccuWeatherGetWeather \/ AccuWeatherLocated \/ AccuWeatherFetched
    \/ WeatherApiGetWeather \/ WeatherApiFetched
    \/ RestfulGetSend \/ RestfulGetText
Spec == Init /\ [][Next]_vars

\* Config files found by the first process: none, and files earlier runs or
\* the user's editor left.
StoredSection(apikey) == TomlTable("apikey" :> TomlString(apikey))
InitialConfigs ==
    { EmptyTable,
      (ACTIVE_ENTRY :> TomlString("weatherapi")) @@ ("weatherapi" :> StoredSection("XYZ")),
      (ACTIVE_ENTRY :> TomlString("openweather")) @@ ("openweather" :> StoredSection("banana"))
          @@ ("weatherapi" :> StoredSection("XYZ")),
      ("weatherapi" :> TomlTable(("apikey" :> TomlString("XYZ")) @@ ("region" :> TomlString("eu")))),
      (ACTIVE_ENTRY :> TomlInteger(42)) @@ ("openweather" :> StoredSection("banana")) }

\* The client: processes run one after the other, each executing one command
\* on the config file the previous ones left.
CliInit ==
    /\ providers = MainRegistry
    /\ panicked = FALSE
    /\ regLog = Keys(providers)
    /\ lastCall = NoCall
    /\ section = EmptySection
    /\ created = NotCreated
    /\ gw = GwIdle
    /\ rg = RgIdle
    /\ gets = <<>>
    /\ rgLog = <<>>
    /\ disk \in InitialConfigs
    /\ pc = "start"
    /\ cmd = NoCmd
    /\ cfg = EmptyTable
    /\ new_config = EmptyTable
    /\ outcome = Pending
    /\ calls = <<>>
    /\ runs = 0
    /\ lastClear = NoClear
    /\ loaded = EmptyTable
    /\ writes = 0
    /\ creates = <<>>
CliNext ==
    \/ MainStart
    \/ ConfigureProvider \/ ConfigureChecked
    \/ GetForecast \/ GetForecastReturned
    \/ ClearProviders
    \/ WriteConfig
    \/ MainExit
CliSpec == CliInit /\ [][CliNext]_vars

\* The client on a machine without a config file: the first process finds
\* none, every table after it is one the commands wrote.
FreshInit == CliInit /\ disk = EmptyTable
FreshSpec == FreshInit /\ [][CliNext]_vars

(***************************************************************************)
(* Properties                                                              *)
(***************************************************************************)
\* The names registered so far: the calls that found their name vacant.
Registered == {regLog[i] : i \in 1..Len(regLog)}

\* C1: whatever the order of the add_provider calls, iterating the registry
\* yields exactly the registered names, each once, in lexicographic byte
\* order (a proper prefix first): weatherapi, accuweather, openweather
\* iterates as accuweather, openweather, weatherapi.
C1_IterationLexicographic ==
    /\ {providers[i].name : i \in 1..Len(providers)} = Registered
    /\ Len(providers) = Cardinality(Registered)
    /\ \A i, j \in 1..Len(providers) :
          i < j => LexLess(Utf8(providers[i].name), Utf8(providers[j].name))
    /\ regLog = <<"weatherapi", "accuweather", "openweather">>
          => Keys(providers) = <<"accuweather", "openweather", "weatherapi">>
    /\ Registered = Names
          => Keys(providers) = <<"accuweather", "openweather", "stub", "weather", "weatherapi">>

\* C1 witness: the three names registered in the order weatherapi,
\* accuweather, openweather.
C1_Witness ==
    /\ regLog = <<"weatherapi", "accuweather", "openweather">>
    /\ Len(providers) = 3
    /\ ~panicked

\* C2: an add_provider call (the step that changes lastCall or regLog) with a
\* name already present panics and leaves every stored factory as it was;
\* with a new name it stores exactly that one entry and changes no other. A
\* panic ends the process: no step starts in a panicked state.
C2_DuplicatePanics ==
    [][ /\ ~panicked
        /\ LET name == lastCall'.name
           IN  IF ContainsKey(providers, name)
               THEN /\ panicked'
                    /\ providers' = providers
                    /\ Get(providers', name) = Get(providers, name)
               ELSE /\ ~panicked'
                    /\ Len(providers') = Len(providers) + 1
                    /\ Get(providers', name) = lastCall'.factory
                    /\ \A n \in Names \ {name} : Get(providers', n) = Get(providers, n)
      ]_regVars

\* C2 witness: a second registration under a name, with another factory, has
\* panicked and the first factory is still the one stored.
C2_Witness ==
    /\ panicked
    /\ ContainsKey(providers, lastCall.name)
    /\ Get(providers, lastCall.name) # lastCall.factory

\* A restful_get call has returned after reading the response text: a
\* response arrived and a decoder ran on its body.
Decoded == rg.pc = "done" /\ rg.applied # <<>>
Is2xx(code) == code \in 200..299
\* The error kinds of the fetch contract, as the chains restful_get returns.
IsTransport(res) ==
    ~res.ok /\ res.err = <<Ctx("HTTP GET request failed"), ReqwestError>>
IsUnexpectedSuccessShape(res) ==
    ~res.ok /\ res.err = <<Ctx("Could not parse response as successful result"), SerdeError>>
IsApi(res) == ~res.ok /\ \E i \in 1..Len(res.err) : res.err[i].kind = "ApiError"

\* C3: a 2xx response whose body decodes as R makes restful_get return Ok of
\* exactly the decoded value, and E::from_str is not applied to the body.
C3_SuccessRoundTrip ==
    /\ (Decoded /\ Is2xx(rg.code) /\ FromStr(rg.R, rg.text).ok) =>
          /\ rg.result = Ok(FromStr(rg.R, rg.text).val)
          /\ \A i \in 1..Len(rg.applied) : rg.applied[i] # rg.E
    /\ (Decoded /\ Is2xx(rg.code) /\ rg.R = "openweather::WeatherData"
          /\ rg.text = JObj(OwFields(20, 800) @@ OwErrFields)) =>
          rg.result = Ok([temp |-> 20, humidity |-> 50, speed |-> 1, weather |-> <<800>>])
    /\ (Decoded /\ Is2xx(rg.code) /\ rg.R = "accuweather::LocationData"
          /\ rg.text = JArr(<<JObj([Key |-> JStr("324505")]), JObj([Key |-> JStr("328328")])>>)) =>
          rg.result = Ok(<<"324505", "328328">>)

\* C3 witness: a 2xx response whose body decodes as R and also as E has been
\* returned as a success.
C3_Witness ==
    /\ Decoded /\ Is2xx(rg.code)
    /\ FromStr(rg.R, rg.text).ok /\ FromStr(rg.E, rg.text).ok
    /\ rg.result.ok

\* C4: a non-2xx response whose body decodes as E makes restful_get return
\* the error whose root cause is exactly the decoded E value, with no context
\* around it; and no call that got a non-2xx status returns Ok, whether or
\* not the body decodes as R.
C4_ApiErrorVerbatim ==
    /\ (Decoded /\ ~Is2xx(rg.code) /\ FromStr(rg.E, rg.text).ok) =>
          rg.result = Err(<<ApiErrorItem(FromStr(rg.E, rg.text).val)>>)
    /\ (rg.pc = "done" /\ ~Is2xx(rg.code)) => ~rg.result.ok
    /\ (Decoded /\ ~Is2xx(rg.code) /\ rg.E = "weatherapi::ApiError"
          /\ rg.text = JObj(WaErrFields)) =>
          rg.result = Err(<<ApiErrorItem([code |-> 1006,
                                         message |-> "No matching location found."])>>)

\* C4 witness: a non-2xx response whose body decodes as E and also as R has
\* been returned as the Api error.
C4_Witness ==
    /\ Decoded /\ ~Is2xx(rg.code)
    /\ FromStr(rg.R, rg.text).ok /\ FromStr(rg.E, rg.text).ok
    /\ IsApi(rg.result)

\* C5: a 2xx response whose body does not decode as R makes restful_get
\* return the "could not parse as successful result" error: never Ok, never
\* the Api error, also when the body decodes as E.
C5_UnexpectedSuccessShape ==
    (Decoded /\ Is2xx(rg.code) /\ ~FromStr(rg.R, rg.text).ok) =>
        /\ ~rg.result.ok
        /\ IsUnexpectedSuccessShape(rg.result)
        /\ ~IsApi(rg.result)

\* C5 witness: a 2xx response with a well-formed failure document, which is
\* not of R's shape, has been returned as the shape error.
C5_Witness ==
    /\ Decoded /\ Is2xx(rg.code)
    /\ ~FromStr(rg.R, rg.text).ok /\ FromStr(rg.E, rg.text).ok
    /\ IsUnexpectedSuccessShape(rg.result)

\* Some link of the error chain carries the HTTP status / the text / a
\* decode cause.
CarriesStatus(res, code) == \E i \in 1..Len(res.err) : res.err[i].code = code
CarriesText(res, text) == \E i \in 1..Len(res.err) : res.err[i].val = text
CarriesDecodeCause(res) == \E i \in 1..Len(res.err) : res.err[i].kind = "serde_json::Error"

\* C6 as claimed: a non-2xx response whose body does not decode as E makes
\* restful_get return an error carrying the HTTP status, the decode cause and
\* the raw response body.
C6_Original ==
    (Decoded /\ ~Is2xx(rg.code) /\ ~FromStr(rg.E, rg.text).ok) =>
        /\ ~rg.result.ok
        /\ CarriesStatus(rg.result, rg.code)
        /\ CarriesDecodeCause(rg.result)
        /\ CarriesText(rg.result, rg.text)

\* C6, amended: a non-2xx response whose body does not decode as E makes
\* restful_get return the "could not parse as failure" error, which carries
\* the HTTP status (in its message) and the decode cause, and nothing else:
\* the response body is not part of it.
C6_UnexpectedFailureShape ==
    (Decoded /\ ~Is2xx(rg.code) /\ ~FromStr(rg.E, rg.text).ok) =>
        /\ ~rg.result.ok
        /\ Len(rg.result.err) = 2
        /\ rg.result.err[1].kind = "context"
        /\ rg.result.err[1].msg = "Could not parse response as failure (HTTP {code})"
        /\ rg.result.err[1].code = rg.code
        /\ rg.result.err[2] = SerdeError
        /\ ~CarriesText(rg.result, rg.text)

\* C6 witness: a 404 whose body is not of E's shape has been returned.
C6_Witness ==
    /\ Decoded /\ rg.code = 404 /\ ~FromStr(rg.E, rg.text).ok
    /\ rg.text # JBad
    /\ CarriesStatus(rg.result, 404)

\* C7: a restful_get call issues exactly one GET, to its URL: none before the
\* request is sent, one from then on, whatever the call returns; and during
\* one get_weather call no URL is requested twice.
C7_OneGetPerCall ==
    /\ rg.pc = "get" => rg.sent = 0
    /\ rg.pc \in {"text", "done"} =>
          /\ rg.sent = 1
          /\ gets # <<>> /\ gets[Len(gets)] = rg.url
    /\ \A i, j \in 1..Len(gets) : i # j => gets[i] # gets[j]
    /\ Len(gets) = Len(rgLog) + (IF rg.pc = "text" THEN 1 ELSE 0)

\* C7 witness: the weather request of a get_weather call failed at transport
\* level and restful_get has returned.
C7_Witness ==
    /\ rg.pc = "done" /\ IsTransport(rg.result)
    /\ Len(gets) = 2

\* C8: a create call on a registered provider's factory (the step that takes
\* created from "none" to "done") succeeds exactly when every parameter id of
\* the provider's descriptor is a key of the section, and then the instance
\* holds the section's values; otherwise it fails with the missing-parameter
\* error naming a descriptor id the section lacks. Either way no GET is issued,
\* no request is started and the section is left as it was.
C8_ConstructChecksParams ==
    [][ (created.pc = "none" /\ created'.pc = "done") =>
          LET params == FactoryInfo(created'.T).params
              missing == {params[i].id : i \in 1..Len(params)} \ DOMAIN section
          IN  /\ ContainsKey(providers, created'.name)
              /\ created'.T = Get(providers, created'.name)
              /\ created'.result.ok <=> missing = {}
              /\ created'.result.ok =>
                    created'.result.val = [T |-> created'.T, apikey |-> section["apikey"]]
              /\ ~created'.result.ok =>
                    \E id \in missing :
                       created'.result.err = <<MsgArg("Missing parameter '{}'", id)>>
              /\ section' = section
              /\ gets' = gets /\ rgLog' = rgLog /\ rg' = rg
      ]_vars

\* C8 witness: create has failed on a section that has a key, but not the
\* declared one.
C8_Witness ==
    /\ created.pc = "done" /\ ~created.result.ok
    /\ DOMAIN section = {"region"}

\* The providers that look the location up before asking for the weather,
\* and that serve current conditions only.
Geocoders == {"OpenWeather", "AccuWeather"}

\* C9: a get_weather call with a date on OpenWeather or AccuWeather has
\* returned the unsupported-date error, and no restful_get call was started
\* and no GET issued during it.
C9_UnsupportedDateNoNetwork ==
    (gw.T \in Geocoders /\ gw.pc # "idle" /\ gw.date.some) =>
        /\ gw.pc = "done"
        /\ gw.result =
              Err(<<Msg("Sorry, requesting weather for specific date isn't supported")>>)
        /\ gets = <<>> /\ rgLog = <<>> /\ rg.pc = "idle"

\* C9 witness: OpenWeather's get_weather was called with a date and returned.
C9_Witness ==
    /\ gw.T = "OpenWeather" /\ gw.date.some /\ gw.pc = "done"
    /\ ~gw.result.ok

GeoEndpoint(T) ==
    IF T = "OpenWeather" THEN "https://api.openweathermap.org/geo/1.0/direct"
    ELSE "https://dataservice.accuweather.com/locations/v1/cities/search"
DataEndpoint(T) ==
    IF T = "OpenWeather" THEN "https://api.openweathermap.org/data/2.5/weather"
    ELSE "http://dataservice.accuweather.com/currentconditions/v1/"

\* C10: during a get_weather call on OpenWeather or AccuWeather the first GET
\* is the location request for the asked location; a second GET is issued
\* only when the location request returned Ok with a non-empty list, and it
\* is the weather request for the first entry of that list (coordinates
\* printed with four decimals, or the location key); there is no third. When
\* the list is empty the call fails with the location-not-found error, and
\* when the location request fails the call fails with that error as its
\* cause; in both cases the location GET is the only one.
C10_GeocodeThenWeather ==
    (gw.T \in Geocoders /\ gw.pc # "idle") =>
        /\ Len(gets) <= 2
        /\ Len(gets) >= 1 =>
              /\ gets[1].endpoint = GeoEndpoint(gw.T)
              /\ gets[1].q = gw.location
        /\ Len(gets) = 2 =>
              /\ rgLog # <<>> /\ rgLog[1].url = gets[1]
              /\ rgLog[1].result.ok /\ rgLog[1].result.val # <<>>
              /\ gets[2].endpoint = DataEndpoint(gw.T)
              /\ gw.T = "OpenWeather" =>
                    /\ gets[2].lat = Fixed4(rgLog[1].result.val[1].lat)
                    /\ gets[2].lon = Fixed4(rgLog[1].result.val[1].lon)
                    /\ Len(rgLog[1].result.val) = 2 =>
                          gets[2].lat = 504501 /\ gets[2].lon = 305234
                    /\ Len(rgLog[1].result.val) = 1 =>
                          gets[2].lat = 515073 /\ gets[2].lon = -1278
              /\ gw.T = "AccuWeather" => gets[2].key = rgLog[1].result.val[1]
        /\ (gw.pc = "done" /\ rgLog # <<>> /\ rgLog[1].result.ok
              /\ rgLog[1].result.val = <<>>) =>
              /\ Len(gets) = 1
              /\ gw.result =
                    Err(<<MsgArg(IF gw.T = "OpenWeather"
                                 THEN "Could not obtain coordinates of location '{location}'"
                                 ELSE "Could not obtain location key for {location}",
                                 gw.location)>>)
        /\ (gw.pc = "done" /\ rgLog # <<>> /\ ~rgLog[1].result.ok) =>
              /\ Len(gets) = 1
              /\ ~gw.result.ok
              /\ Len(gw.result.err) = Len(rgLog[1].result.err) + 1
              /\ gw.result.err[1].kind = "context"
              /\ Tail(gw.result.err) = rgLog[1].result.err

\* C10 witness: the location request returned two entries and the weather GET
\* has been issued.
C10_Witness ==
    /\ gw.T = "OpenWeather" /\ Len(gets) = 2
    /\ Len(rgLog[1].result.val) = 2

(***************************************************************************)
(* Properties of the commands (CliSpec)                                    *)
(***************************************************************************)
\* configure_provider ran, or is at its await, for a registered provider.
Configured ==
    /\ cmd.verb = "configure" /\ pc # "command"
    /\ ContainsKey(providers, cmd.provider.name)
\* The parameters that hold no '='.
BadTokens == {i \in 1..Len(cmd.parameters) : ~SplitOnce(cmd.parameters[i]).some}
\* The error that reports a parameter without '='.
BadSyntax(token) ==
    Err(<<MsgArg("Argument '{param}' cannot be parsed as '<name>=<value>' parameter", token)>>)
\* The command stopped on a value it could not read.
ValueRejected ==
    /\ pc = "failed"
    /\ outcome.err[1] \in {CtxArg("When parsing value of parameter {param}", cmd.parameters[i]) :
                             i \in 1..Len(cmd.parameters)}

\* C11: a configure call whose parameters include one without '=' fails with
\* the syntax error naming such a parameter, calls no provider and leaves the
\* registry and the config table as they were, whatever the other parameters
\* are and wherever the bad one stands.
C11_BadSyntaxAnywhere ==
    (Configured /\ BadTokens # {}) =>
        /\ pc = "failed"
        /\ \E i \in BadTokens : outcome = BadSyntax(cmd.parameters[i])
        /\ calls = <<>>
        /\ cfg = disk
        /\ providers = MainRegistry

\* The ids of the parameters the provider type declares, and the ids in
\* declaration order.
DeclaredIds(T) == {FactoryInfo(T).params[i].id : i \in 1..Len(FactoryInfo(T).params)}
\* The keys of the parameters that hold a '='.
GivenKeys ==
    {SplitOnce(cmd.parameters[i]).name :
        i \in {j \in 1..Len(cmd.parameters) : SplitOnce(cmd.parameters[j]).some}}
\* The provider type the command names.
CmdType == Get(providers, cmd.provider.name)
\* The root cause of the error the command returned names the text.
RootNames(text) == ~outcome.ok /\ outcome.err # <<>> /\ outcome.err[Len(outcome.err)].arg = text

\* C12: a configure call with a parameter whose key the provider does not
\* declare fails with an error naming that key, and a section configure has
\* written holds declared keys only.
C12_UnknownParameterRejected ==
    /\ (Configured /\ GivenKeys \ DeclaredIds(CmdType) # {}) =>
          /\ pc = "failed"
          /\ \E key \in GivenKeys \ DeclaredIds(CmdType) : RootNames(key)
    /\ (cmd.verb = "configure" /\ pc = "done") =>
          DOMAIN disk[cmd.provider.name].table \subseteq DeclaredIds(CmdType)

\* The declared ids no parameter gives, and the first of them in the order of
\* the provider's descriptor.
MissingIds == DeclaredIds(CmdType) \ GivenKeys
FirstMissingId ==
    LET params == FactoryInfo(CmdType).params
        first == CHOOSE i \in 1..Len(params) :
                     /\ params[i].id \in MissingIds
                     /\ \A j \in 1..(i - 1) : params[j].id \notin MissingIds
    IN  params[first].id

\* C13: a configure call whose parameters all hold a '=', are not empty and
\* leave out a declared id fails with the missing-parameter error naming the
\* first such id in descriptor order, before any provider call, and the
\* config table is left as it was.
C13_MissingParameterFirst ==
    (Configured /\ cmd.parameters # <<>> /\ BadTokens = {} /\ MissingIds # {}) =>
        /\ pc = "failed"
        /\ outcome.err[Len(outcome.err)] = MsgArg("Missing parameter '{}'", FirstMissingId)
        /\ calls = <<>>
        /\ cfg = disk

\* C14: a configure call without parameters, for a provider that declares at
\* least one, does not stop for want of parameters: it collects one raw
\* string answer per declared parameter and goes on to the validation call.
C14_InteractiveFallback ==
    (Configured /\ cmd.parameters = <<>> /\ Len(FactoryInfo(CmdType).params) >= 1) =>
        /\ Len(calls) = 1
        /\ DOMAIN new_config = DeclaredIds(CmdType)
        /\ \A id \in DOMAIN new_config : new_config[id].type = "String"

\* The parameters were collected and the provider built: configure_provider
\* is at, or past, its validation call.
Validating == Configured /\ (pc \in {"await", "write", "done"} \/ calls # <<>>)

\* C15: once the parameters are collected configure makes exactly one
\* validation call, for the fixed reference location and no date, before any
\* change to the config table; when the call fails the error carries a
\* context naming the provider and the config table is what it was.
C15_ValidationCall ==
    /\ Validating => calls = <<Call(CmdType, DEFAULT_CONFIGURE_LOCATION, NoDate)>>
    /\ (Validating /\ pc = "await") => cfg = disk
    /\ (Validating /\ pc = "failed") =>
          /\ outcome.err[1] = CtxArg("When configuring {provider}", cmd.provider.name)
          /\ cfg = disk

\* The table the parameters denote when each value is the text after the
\* first '=' of its parameter, taken as a string.
RECURSIVE RawTable(_)
RawTable(parameters) ==
    IF parameters = <<>> THEN EmptyTable
    ELSE LET last == parameters[Len(parameters)]
         IN  Insert(RawTable(SubSeq(parameters, 1, Len(parameters) - 1)),
                    SplitOnce(last).name, TomlString(SplitOnce(last).value))

\* C16: when configure P k1=v1 ... succeeds, the entry stored for P is the
\* mapping the parameters give, whatever was stored for P before, and the
\* default entry names P if the table was empty before the command.
C16_SectionReplaced ==
    (Configured /\ pc \in {"write", "done"}) =>
        /\ cfg[cmd.provider.name] = TomlTable(RawTable(cmd.parameters))
        /\ (pc = "write" /\ IsEmpty(disk)) => cfg[ACTIVE_ENTRY] = TomlString(cmd.provider.name)
        /\ pc = "done" => disk = cfg

\* The names a clear command lists, and whether one may be listed.
ClearNames == cmd.providers
Clearable(name) == name = "all" \/ ContainsKey(providers, name)

\* C17: clear succeeds when every name it lists is registered (or is all),
\* whether or not an entry is stored under the name; it fails, with 'No such
\* provider' naming it, only on a listed name that is neither; and clear P
\* run right after a clear P, P registered, leaves the config table as the
\* first one left it.
C17_ClearIdempotent ==
    (cmd.verb = "clear" /\ pc # "command") =>
        /\ (\A i \in 1..Len(ClearNames) : Clearable(ClearNames[i])) => pc \in {"write", "done"}
        /\ pc = "failed" =>
              \E i \in 1..Len(ClearNames) :
                 /\ ~Clearable(ClearNames[i])
                 /\ outcome = Err(<<MsgArg("No such provider: {prov_name}", ClearNames[i])>>)
        /\ (Len(ClearNames) = 1 /\ ContainsKey(providers, ClearNames[1])
              /\ lastClear = ClearNames) =>
              pc \in {"write", "done"} /\ cfg = disk

\* A second clear weatherapi is about to write the table: no entry is stored
\* for weatherapi, another provider's entry still is.
C17_Witness ==
    /\ pc = "write" /\ cmd = Clear(<<"weatherapi">>) /\ lastClear = <<"weatherapi">>
    /\ "weatherapi" \notin DOMAIN cfg
    /\ "openweather" \in DOMAIN cfg

\* C18: a get with --provider P and --set-default that succeeded has set the
\* default entry of the config file to P; a get without --set-default leaves
\* the config table as read.
C18_SetDefault ==
    cmd.verb = "get" =>
        /\ (cmd.provider.some /\ cmd.set_default /\ pc = "done") =>
              /\ ACTIVE_ENTRY \in DOMAIN disk
              /\ disk[ACTIVE_ENTRY] = TomlString(cmd.provider.name)
        /\ ~cmd.set_default => cfg = disk

(***************************************************************************)
(* Properties of the calendar date (Spec)                                  *)
(***************************************************************************)
\* ASCII digits
DigitBytes == 48..57
\* A text of the shape YYYY-MM-DD: ten bytes, digits but for the two '-'.
IsPaddedDate(text) ==
    /\ Len(text) = 10
    /\ text[5] = 45 /\ text[8] = 45
    /\ \A i \in {1, 2, 3, 4, 6, 7, 9, 10} : text[i] \in DigitBytes

\* C19: the printed form of the date of a get_weather call is zero-padded
\* YYYY-MM-DD, ten characters, and it is the text the WeatherApi provider puts
\* for the date in the URL of its request.
C19_PrintedDate ==
    (gw.T = "WeatherApi" /\ gw.pc = "fetch" /\ gw.date.some) =>
        /\ IsPaddedDate(DateDisplay(gw.date))
        /\ rg.url.dt = DateDisplay(gw.date)

(***************************************************************************)
(* Properties of the commands (CliSpec), continued                         *)
(***************************************************************************)
\* C20: every configure parameter is cut at its first '=' and the value kept
\* for its key is the text after that '=', as a string: no value text is
\* rejected or given another type.
C20_RawValueStored ==
    (Configured /\ cmd.parameters # <<>> /\ BadTokens = {}) =>
        /\ ~ValueRejected
        /\ pc \in {"await", "write", "done"} => new_config = RawTable(cmd.parameters)

\* C21: a process calls write_config at most once, and only after its
\* command returned without error; until then, and for good when the command
\* fails, the config file holds the table the process read at its start.
C21_WriteBackOnSuccess ==
    /\ writes <= 1
    /\ writes = 1 => (pc = "done" /\ outcome.ok /\ disk = cfg)
    /\ pc \in {"command", "await", "write", "failed"} => (writes = 0 /\ disk = loaded)

\* A clear that removed the entry of weatherapi from its table and then
\* failed on an unregistered name: the file still holds the entry.
C21_Witness ==
    /\ pc = "failed" /\ cmd = Clear(<<"weatherapi", "stub">>)
    /\ "weatherapi" \in DOMAIN disk
    /\ "weatherapi" \notin DOMAIN cfg

(***************************************************************************)
(* Properties of the config table the commands build (FreshSpec)           *)
(***************************************************************************)
\* The default entry of the table, when there is one, is a string naming an
\* entry of the table.
DefaultNamesEntry(table) ==
    ACTIVE_ENTRY \in DOMAIN table =>
        /\ table[ACTIVE_ENTRY].type = "String"
        /\ table[ACTIVE_ENTRY].str \in DOMAIN table

\* C22: from no config file on, whatever commands ran: when the config file
\* (or the table about to be written to it) has a default entry, it has an
\* entry for the provider the default entry names; a clear that removes the
\* entry the default names removes the default entry with it.
C22_DefaultNamesStoredEntry ==
    /\ DefaultNamesEntry(disk)
    /\ pc = "write" => DefaultNamesEntry(cfg)
    /\ (pc = "write" /\ cmd.verb = "clear" /\ ACTIVE_ENTRY \in DOMAIN loaded
          /\ loaded[ACTIVE_ENTRY].str \notin DOMAIN cfg) => ACTIVE_ENTRY \notin DOMAIN cfg

\* A clear took the entry the default named, and the default entry with it,
\* while another provider's entry stays.
C22_Witness ==
    /\ pc = "write" /\ cmd.verb = "clear"
    /\ ACTIVE_ENTRY \in DOMAIN loaded
    /\ ACTIVE_ENTRY \notin DOMAIN cfg
    /\ ~IsEmpty(cfg)

\* C23: a configure P that succeeds on a table that is not empty changes the
\* entry under P only: the default entry and every other provider's entry are
\* as they were, so a table whose default entry a clear removed, another
\* entry remaining, gets none from a later configure.
C23_ConfigureFrame ==
    (cmd.verb = "configure" /\ pc \in {"write", "done"} /\ ~IsEmpty(loaded)) =>
        /\ DOMAIN cfg = DOMAIN loaded \cup {cmd.provider.name}
        /\ \A key \in DOMAIN loaded \ {cmd.provider.name} : cfg[key] = loaded[key]
        /\ pc = "done" => disk = cfg

\* A configure succeeded on a table that held another provider's entry and,
\* a clear having removed it, no default entry.
C23_Witness ==
    /\ cmd.verb = "configure" /\ pc = "write"
    /\ ~IsEmpty(loaded)
    /\ ACTIVE_ENTRY \notin DOMAIN loaded
    /\ DOMAIN loaded # {cmd.provider.name}
    /\ cfg # loaded

\* The get command names a provider: its --provider argument, or else the
\* default entry when that is a string.
Resolvable ==
    cmd.provider.some
      \/ (ACTIVE_ENTRY \in DOMAIN cfg /\ cfg[ACTIVE_ENTRY].type = "String")

Resolved == IF cmd.provider.some THEN cmd.provider.name ELSE cfg[ACTIVE_ENTRY].str

\* The get command failed with this message before any provider was
\* constructed or called.
FailedEarly(item) ==
    /\ pc = "failed"
    /\ outcome = Err(<<item>>)
    /\ creates = <<>>
    /\ calls = <<>>

\* C24: get uses the provider named by --provider, or else by the default
\* entry. It fails with nothing constructed and nothing called when there is
\* neither, else when the name is not registered, else when no entry is
\* stored under the name; the provider's weather call is made only after the
\* provider was constructed from the stored entry.
C24_GetResolution ==
    (cmd.verb = "get" /\ pc \notin {"start", "command"}) =>
        /\ (~cmd.provider.some /\ ACTIVE_ENTRY \notin DOMAIN cfg) =>
              FailedEarly(Msg("Active provider not specified. Please use -sp <provider_name> to specify new default one"))
        /\ (Resolvable /\ Resolved \notin {"openweather", "weatherapi"}) =>
              FailedEarly(MsgArg("No such provider: {provider_name}", Resolved))
        /\ (Resolvable /\ Resolved \in {"openweather", "weatherapi"} /\ Resolved \notin DOMAIN cfg) =>
              FailedEarly(MsgArg("Missing config for provider '{provider_name}'", Resolved))
        /\ creates # <<>> =>
              /\ Resolvable
              /\ Resolved \in DOMAIN cfg
              /\ creates = <<Creation(IF Resolved = "openweather" THEN "OpenWeather" ELSE "WeatherApi",
                                      cfg[Resolved].table)>>
        /\ calls # <<>> =>
              /\ Len(calls) = 1 /\ Len(creates) = 1
              /\ calls[1].T = creates[1].T
              /\ calls[1].location = cmd.address
              /\ ProviderNew(creates[1].T, creates[1].config).ok

\* A get with a --provider argument other than the default entry's name
\* reached the weather call.
C24_Witness ==
    /\ cmd.verb = "get" /\ pc = "await"
    /\ cmd.provider.some /\ cmd.provider.name = "weatherapi"
    /\ ACTIVE_ENTRY \in DOMAIN cfg /\ cfg[ACTIVE_ENTRY] = TomlString("openweather")
    /\ calls # <<>>
====
